---- MODULE Spec2Model ----
(***************************************************************************)
(* Model of the SDS-011 protocol driver, class SDS011 of sds011_lib.cpp.   *)
(*                                                                         *)
(* The driver is single threaded.  Every library function is a blocking    *)
(* call; the only points where the outside world acts are the read() and   *)
(* write() calls on the serial file descriptor.  The model keeps the call  *)
(* stack of the running operation in `stack` (head = the code position     *)
(* that runs next) and takes one step per code section between two calls.  *)
(* Bytes are naturals 0..255; a C array a[k] is the sequence element       *)
(* a[k+1], written B(a, k).                                                *)
(***************************************************************************)
EXTENDS Integers, Sequences, FiniteSets, TLC

\* ---------------------------------------------------------------- constants
SDS011_MODE   == 2
SDS011_QDATA  == 4
SDS011_DEVID  == 5
SDS011_SLEEP  == 6
SDS011_FWVER  == 7
SDS011_PERIOD == 8
SDS011_BYTE_BEGIN == 170
SDS011_BYTE_END   == 171
SDS011_BYTE_CMD   == 180
SDS011_SENDPACKET_LEN == 19
SDS011_DATA == 192
SDS011_CONF == 197
SDS011_PACKET_LEN == 10
SDS011_OK    == 0
SDS011_ERROR == 255
REPORT_STREAM == 0
REPORT_QUERY  == 1
MODE_SLEEP == 0
MODE_WORK  == 1
\* the value of _fd that means "no device connection"
NoFd == 255
\* Wait_For_answer: "max 20 times"
WaitMax == 20
\* Try_Connect: i++ == 2 and j++ > 10
PollMark == 2
ResendMax == 10
\* read_sds: retry = 5
ReadRetry == 5
\* largest working period Set_Param accepts
PeriodMax == 30
\* largest relative humidity Set_Humidity_Cor accepts
HumidityMax == 100

\* how many public operations one behaviour of the model runs
MaxCalls == 3
\* how many direct calls of ProcessResponse one behaviour of SpecLocal makes, and
\* of Calc_Checksum one behaviour of SpecSum
MaxParses == 2

\* ------------------------------------------------------------------ helpers
B(a, k) == a[k + 1]

Zeros(n) == [k \in 1..n |-> 0]

\* ---------------------------------------------------------------- variables
VARIABLES
    fd,               \* _fd
    PendingConfReq,   \* _PendingConfReq
    dev_id,           \* _dev_id[2], <<low, high>>
    SDS011_Packet,    \* the outgoing packet buffer, 19 bytes
    data,             \* the parsed response, sds011_response_t
    stack,            \* code positions: head runs next, the rest are return addresses
    ret,              \* return value of the function that returned last
    wait_i,           \* Wait_For_answer: i
    tc_i,             \* Try_Connect: i
    tc_j,             \* Try_Connect: j
    op,               \* the public operation running, or run last
    result,           \* what the last finished operation returned
    link,             \* which transport the driver is connected to
    probes,           \* sensor side: command frames received since the last answered one
    rxq,              \* sensor side: answers not yet read by the driver
    nWrites,          \* write() calls made by the running operation
    didRead,          \* the running operation called read()
    wfail,            \* a write() of the running operation did not take the whole frame
    confIn,           \* the running operation parsed a valid configuration frame
    wire,             \* the frame handed to the last write()
    polls,            \* Try_Connect: read_sds calls since the probe was last written
    session,          \* "new", "connecting", "usable" or "failed": outcome of begin()
    calls,            \* public operations entered so far
    arg,              \* the arguments of the public operation running, or run last
    ackIn,            \* since its last write the running operation parsed the
                      \* configuration frame that answers the command written
    lastId,           \* byte 7 * 256 + byte 6 of the last frame read_sds parsed with
                      \* success, 0xFFFF before the first
    outstanding,      \* configuration commands written since the last parsed
                      \* configuration response, counted up to 2 ("two or more")
    RelativeHumidity, \* _RelativeHumidity, in percent
    inp,              \* SpecLocal: the buffer and length ProcessResponse is called with
    outp,             \* SpecLocal: what the last call of ProcessResponse returned
    buf,              \* read_sds: the bytes of buf[] that read() has filled
    retry,            \* read_sds: retry
    nReads            \* read() calls made by the running read_sds

prog == <<fd, PendingConfReq, dev_id, SDS011_Packet, data>>
ctl  == <<stack, ret, wait_i, tc_i, tc_j>>
api  == <<op, result, arg>>
sens == <<link, probes, rxq>>
obs  == <<nWrites, didRead, wfail, confIn, wire, polls, session, ackIn, outstanding,
          lastId>>
rds  == <<buf, retry, nReads>>
loc  == <<RelativeHumidity, inp, outp, rds>>
vars == <<prog, ctl, api, sens, obs, calls, loc>>

\* -------------------------------------------------------------------- codec
\* mutant of Calc_Checksum: the sum stops at 255 instead of wrapping
RECURSIVE Calc_Checksum_Saturates(_)
Calc_Checksum_Saturates(bytes) ==
    IF bytes = <<>> THEN 0
    ELSE LET t == Calc_Checksum_Saturates(SubSeq(bytes, 1, Len(bytes) - 1))
                  + bytes[Len(bytes)]
         IN IF t > 255 THEN 255 ELSE t

\* mutant of Calc_Checksum: the sum is kept in an int and never wraps
RECURSIVE Calc_Checksum_NoWrap(_)
Calc_Checksum_NoWrap(bytes) ==
    IF bytes = <<>> THEN 0
    ELSE Calc_Checksum_NoWrap(SubSeq(bytes, 1, Len(bytes) - 1)) + bytes[Len(bytes)]

\* Calc_Checksum: uint8_t checksum = 0; checksum += packet[counter] for each byte
RECURSIVE Calc_Checksum(_)
Calc_Checksum(bytes) ==
    IF bytes = <<>> THEN 0
    ELSE (Calc_Checksum(SubSeq(bytes, 1, Len(bytes) - 1)) + bytes[Len(bytes)]) % 256

\* mutant of prepare_packet: the bytes it does not set keep their old value
prepare_packet_KeepsBytes(data1) ==
    [k \in 1..SDS011_SENDPACKET_LEN |->
        CASE k = 1  -> SDS011_BYTE_BEGIN
          [] k = 2  -> SDS011_BYTE_CMD
          [] k = 3  -> data1
          [] k = 19 -> SDS011_BYTE_END
          [] k = 16 -> dev_id[1]
          [] k = 17 -> dev_id[2]
          [] OTHER  -> SDS011_Packet[k]]

\* mutant of prepare_packet: the two id bytes in the wrong order
prepare_packet_SwapsId(data1) ==
    [k \in 1..SDS011_SENDPACKET_LEN |->
        CASE k = 1  -> SDS011_BYTE_BEGIN
          [] k = 2  -> SDS011_BYTE_CMD
          [] k = 3  -> data1
          [] k = 19 -> SDS011_BYTE_END
          [] k = 16 -> dev_id[2]
          [] k = 17 -> dev_id[1]
          [] OTHER  -> 0]

\* prepare_packet(data1), lines 255-268: the packet it leaves in SDS011_Packet
prepare_packet(data1) ==
    [k \in 1..SDS011_SENDPACKET_LEN |->
        CASE k = 1  -> SDS011_BYTE_BEGIN
          [] k = 2  -> SDS011_BYTE_CMD
          [] k = 3  -> data1
          [] k = 19 -> SDS011_BYTE_END
          [] k = 16 -> dev_id[1]
          [] k = 17 -> dev_id[2]
          [] OTHER  -> 0]

\* mutant of Get_DevID: the two bytes of _dev_id in the wrong order
Get_DevID_Swapped == dev_id[1] * 256 + dev_id[2]

\* Get_DevID, lines 483-486
Get_DevID == dev_id[2] * 256 + dev_id[1]

\* mutant of ParseData: a measurement frame is taken for the awaited answer
ParseData_ClearsFlag(packet, d1) ==
    [rc   |-> SDS011_OK,
     data |-> [d1 EXCEPT !.pm25 = B(packet, 3) * 256 + B(packet, 2),
                         !.pm10 = B(packet, 5) * 256 + B(packet, 4)],
     pend |-> FALSE]

\* the two float values of data.pm25 that are no number of tenths
Infinite == 0 - 1
NotANumber == 0 - 2

\* 2.8 * pow(100 - h, -0.3745) in units of 1/10000, for the humidities below 100
\* that the model uses, 30 and 0
HumidityFactor(h) == IF h = 30 THEN 5704 ELSE 4991

\* ProcessResponse, lines 133-135: data.pm25 * 2.8 * pow(100 - h, -0.3745), in tenths
\* rounded down; pow(0, -0.3745) is +infinity, and infinity times 0 is NaN
HumidityCorrect(pm, h) ==
    IF h = HumidityMax
    THEN (IF pm = 0 THEN NotANumber ELSE Infinite)
    ELSE (pm * HumidityFactor(h)) \div 10000

\* mutant of ParseData: the two bytes of each value in the wrong order
ParseData_BigEndian(packet, d1) ==
    LET raw25 == B(packet, 2) * 256 + B(packet, 3)
    IN
    [rc   |-> SDS011_OK,
     data |-> [d1 EXCEPT !.pm25 = IF RelativeHumidity # 0
                                  THEN HumidityCorrect(raw25, RelativeHumidity)
                                  ELSE raw25,
                         !.pm10 = B(packet, 4) * 256 + B(packet, 5)],
     pend |-> PendingConfReq]

\* mutant of ParseData: the correction is applied without the test of line 133
ParseData_AlwaysCorrects(packet, d1) ==
    [rc   |-> SDS011_OK,
     data |-> [d1 EXCEPT !.pm25 = HumidityCorrect(B(packet, 3) * 256 + B(packet, 2),
                                                  RelativeHumidity),
                         !.pm10 = B(packet, 5) * 256 + B(packet, 4)],
     pend |-> PendingConfReq]

\* ProcessResponse, lines 127-138: a measurement frame.  pm25 and pm10 are kept in
\* tenths, as the integers the code divides by 10.0.
ParseData(packet, d1) ==
    LET raw25 == B(packet, 3) * 256 + B(packet, 2)
    IN
    [rc   |-> SDS011_OK,
     data |-> [d1 EXCEPT !.pm25 = IF RelativeHumidity # 0
                                  THEN HumidityCorrect(raw25, RelativeHumidity)
                                  ELSE raw25,
                         !.pm10 = B(packet, 5) * 256 + B(packet, 4)],
     pend |-> PendingConfReq]

\* mutant of ParseConf: an unknown sub-command is taken for an answer
ParseConf_AcceptsUnknown(packet, d1) ==
    LET d2 == [d1 EXCEPT !.confcmd = B(packet, 2)]
    IN
    CASE d2.confcmd \in {SDS011_SLEEP, SDS011_MODE, SDS011_PERIOD} ->
           [rc   |-> SDS011_OK,
            data |-> [d2 EXCEPT !.type = B(packet, 3), !.mode = B(packet, 4)],
            pend |-> FALSE]
      [] d2.confcmd = SDS011_FWVER ->
           [rc   |-> SDS011_OK,
            data |-> [d2 EXCEPT !.year = B(packet, 3), !.month = B(packet, 4),
                                !.day = B(packet, 5)],
            pend |-> FALSE]
      [] OTHER -> [rc |-> SDS011_OK, data |-> d2, pend |-> FALSE]

\* mutant of ParseConf: the frames that carry a setting leave the flag as it was
ParseConf_KeepsFlag(packet, d1) ==
    LET d2 == [d1 EXCEPT !.confcmd = B(packet, 2)]
    IN
    CASE d2.confcmd \in {SDS011_SLEEP, SDS011_MODE, SDS011_PERIOD} ->
           [rc   |-> SDS011_OK,
            data |-> [d2 EXCEPT !.type = B(packet, 3), !.mode = B(packet, 4)],
            pend |-> PendingConfReq]
      [] d2.confcmd = SDS011_DEVID ->
           [rc |-> SDS011_OK, data |-> d2, pend |-> FALSE]
      [] d2.confcmd = SDS011_FWVER ->
           [rc   |-> SDS011_OK,
            data |-> [d2 EXCEPT !.year = B(packet, 3), !.month = B(packet, 4),
                                !.day = B(packet, 5)],
            pend |-> FALSE]
      [] OTHER -> [rc |-> SDS011_ERROR, data |-> d2, pend |-> PendingConfReq]

\* mutant of ParseConf: the flag is cleared before the sub-command is looked at
ParseConf_ClearsFirst(packet, d1) ==
    LET d2 == [d1 EXCEPT !.confcmd = B(packet, 2)]
    IN
    CASE d2.confcmd \in {SDS011_SLEEP, SDS011_MODE, SDS011_PERIOD} ->
           [rc   |-> SDS011_OK,
            data |-> [d2 EXCEPT !.type = B(packet, 3), !.mode = B(packet, 4)],
            pend |-> FALSE]
      [] d2.confcmd = SDS011_DEVID ->
           [rc |-> SDS011_OK, data |-> d2, pend |-> FALSE]
      [] d2.confcmd = SDS011_FWVER ->
           [rc   |-> SDS011_OK,
            data |-> [d2 EXCEPT !.year = B(packet, 3), !.month = B(packet, 4),
                                !.day = B(packet, 5)],
            pend |-> FALSE]
      [] OTHER -> [rc |-> SDS011_ERROR, data |-> d2, pend |-> FALSE]

\* ProcessResponse, lines 139-167: a configuration frame
ParseConf(packet, d1) ==
    LET d2 == [d1 EXCEPT !.confcmd = B(packet, 2)]
    IN
    CASE d2.confcmd \in {SDS011_SLEEP, SDS011_MODE, SDS011_PERIOD} ->
           [rc   |-> SDS011_OK,
            data |-> [d2 EXCEPT !.type = B(packet, 3), !.mode = B(packet, 4)],
            pend |-> FALSE]
      [] d2.confcmd = SDS011_DEVID ->
           [rc |-> SDS011_OK, data |-> d2, pend |-> FALSE]
      [] d2.confcmd = SDS011_FWVER ->
           [rc   |-> SDS011_OK,
            data |-> [d2 EXCEPT !.year = B(packet, 3), !.month = B(packet, 4),
                                !.day = B(packet, 5)],
            pend |-> FALSE]
      [] OTHER -> [rc |-> SDS011_ERROR, data |-> d2, pend |-> PendingConfReq]

\* mutant of BadFraming: the last byte is not looked at
BadFraming_NoTrailer(packet, length) ==
    \/ length # SDS011_PACKET_LEN
    \/ B(packet, 0) # SDS011_BYTE_BEGIN

\* ProcessResponse, line 115: the length, the first and the last byte
BadFraming(packet, length) ==
    \/ length # SDS011_PACKET_LEN
    \/ B(packet, 0) # SDS011_BYTE_BEGIN
    \/ B(packet, length - 1) # SDS011_BYTE_END

\* mutant of BadChecksum: the sum runs over 5 bytes instead of 6
BadChecksum_FiveBytes(packet) == B(packet, 8) # Calc_Checksum(SubSeq(packet, 3, 7))

\* ProcessResponse, line 119: packet[8] != Calc_Checksum(packet+2, 6)
BadChecksum(packet) == B(packet, 8) # Calc_Checksum(SubSeq(packet, 3, 8))

\* ProcessResponse(packet, length): its return code and what it leaves in the
\* globals `data` and `_PendingConfReq`
ProcessResponse(packet, length) ==
    LET fail(d) == [rc |-> SDS011_ERROR, data |-> d, pend |-> PendingConfReq]
    IN
    IF BadFraming(packet, length)
    THEN fail(data)
    ELSE IF BadChecksum(packet)
    THEN fail(data)
    ELSE
      LET d1 == [data EXCEPT !.devid = B(packet, 7) * 256 + B(packet, 6),
                             !.cmd_id = B(packet, 1)]
      IN
      IF d1.cmd_id = SDS011_DATA THEN ParseData(packet, d1)
      ELSE IF d1.cmd_id = SDS011_CONF THEN ParseConf(packet, d1)
      ELSE fail(d1)

\* mutant of SetsPending: no command raises the flag
SetsPending_Never(cmd) == FALSE

\* send_sds line 551: the condition under which the flag is raised after a write
SetsPending(cmd) == cmd # SDS011_QDATA \/ cmd # SDS011_SLEEP

\* mutant of WaitExhausted: the wait never gives up
WaitExhausted_Never(i) == FALSE

\* Wait_For_answer line 192: if (i++ > 20), on the value of i before the increment
WaitExhausted(i) == i > WaitMax

\* Try_Connect line 464: if (i++ == 2 && _PendingConfReq)
ResendDue(i, pend) == i = PollMark /\ pend

\* mutant of ResendsExhausted: gives up after the second resend
ResendsExhausted_Early(j) == j >= 1

\* Try_Connect line 470: j++ > 10, on the value of j before the increment
ResendsExhausted(j) == j > ResendMax

\* mutant of NotConnected: tests for descriptor 0 instead of the 0xff mark
NotConnected_Zero(f) == f = 0

\* send_sds line 532, read_sds line 568, Set_New_Devid line 500
NotConnected(f) == f = NoFd

\* ------------------------------------------------------------------- sensor
\* The sensor and the serial line are the environment.  Frames the line can
\* deliver are built here with the sensor's own checksum.
RECURSIVE Sum8(_)
Sum8(bytes) == IF bytes = <<>> THEN 0 ELSE (Head(bytes) + Sum8(Tail(bytes))) % 256

MkFrame(marker, b2, b3, b4, b5, id) ==
    LET body == <<b2, b3, b4, b5, id % 256, id \div 256>>
    IN <<SDS011_BYTE_BEGIN, marker>> \o body \o <<Sum8(body), SDS011_BYTE_END>>

\* two device ids, 0xBEEF and 0x1234
IdA == 190 * 256 + 239
IdB == 18 * 256 + 52

\* what the sensor answers to a command frame
Reply(cmd) ==
    CASE B(cmd, 2) = SDS011_QDATA -> MkFrame(SDS011_DATA, 100, 0, 200, 0, IdA)
      [] B(cmd, 2) = SDS011_FWVER -> MkFrame(SDS011_CONF, SDS011_FWVER, 18, 11, 16, IdA)
      [] B(cmd, 2) = SDS011_DEVID ->
             MkFrame(SDS011_CONF, SDS011_DEVID, 0, 0, 0, B(cmd, 14) * 256 + B(cmd, 13))
      [] OTHER -> MkFrame(SDS011_CONF, B(cmd, 2), B(cmd, 3), B(cmd, 4), 0, IdA)

ValidFrames ==
    {MkFrame(SDS011_DATA, 100, 0, 200, 0, IdA),
     MkFrame(SDS011_CONF, SDS011_FWVER, 18, 11, 16, IdA)}

UnknownConf == MkFrame(SDS011_CONF, 9, 0, 0, 0, IdA)

BadFrames ==
    {UnknownConf,
     [MkFrame(SDS011_DATA, 100, 0, 200, 0, IdA) EXCEPT ![3] = 101]}

\* The transports the driver can be connected to:
\*   "any"    the line delivers any frame at any time and write() can fail;
\*   "third"  the sensor ignores two commands and answers each third one;
\*   "query"  the sensor answers every command with one frame and sends nothing else;
\*   "stream" the sensor reports measurements on its own and answers every command:
\*            after a write the first read times out, the next one delivers a
\*            measurement frame that was on its way, the third one the answer.
Links == {"any", "third", "query", "stream"}

\* how many commands in a row the sensor of the line needs to answer one
AnswersEvery == IF link = "third" THEN 3 ELSE 1

\* What the read() calls of one read_sds can return: `shorts` reads of fewer than
\* 10 bytes, then a read of the 10 bytes `frame`; or ReadRetry short reads and no
\* frame.  `take` is the number of queued answers the frame takes off the line.
ReadRuns ==
    LET none == {[shorts |-> ReadRetry, frame |-> <<>>, take |-> 0]}
    IN
    IF link = "any"
    THEN {[shorts |-> k, frame |-> r, take |-> 0] :
             k \in {0, ReadRetry - 1}, r \in ValidFrames \cup BadFrames} \cup none
    ELSE IF rxq = <<>> THEN none
    ELSE IF Head(rxq) = <<>> THEN {[shorts |-> ReadRetry, frame |-> <<>>, take |-> 1]}
    ELSE {[shorts |-> 0, frame |-> Head(rxq), take |-> 1]}

\* what the line delivers, read by read, for a command the sensor answers; <<>> is
\* a read_sds that times out
Answer(cmd) ==
    IF link = "stream"
    THEN <<<<>>, MkFrame(SDS011_DATA, 100, 0, 200, 0, IdA), Reply(cmd)>>
    ELSE <<Reply(cmd)>>

\* what one write(_fd, SDS011_Packet, 19) can return
WriteResults ==
    IF link = "any" THEN {SDS011_SENDPACKET_LEN, 7, -1} ELSE {SDS011_SENDPACKET_LEN}

\* --------------------------------------------------------------------- Init
\* the zero-initialised global `data`, line 35
NoData ==
    [cmd_id |-> 0, confcmd |-> 0, type |-> 0, mode |-> 0, value |-> 0,
     devid |-> 0, year |-> 0, month |-> 0, day |-> 0, pm25 |-> 0, pm10 |-> 0]

\* The file-scope initialisers (lines 35-41) and the constructor (lines 46-49).
Fresh ==
    /\ fd = NoFd
    /\ PendingConfReq = FALSE
    /\ dev_id = <<255, 255>>
    /\ SDS011_Packet = Zeros(SDS011_SENDPACKET_LEN)
    /\ data = NoData
    /\ stack = <<>>
    /\ ret = 0
    /\ wait_i = 0
    /\ tc_i = 0
    /\ tc_j = 0
    /\ op = "none"
    /\ result = -1
    /\ probes = 0
    /\ rxq = <<>>
    /\ nWrites = 0
    /\ didRead = FALSE
    /\ wfail = FALSE
    /\ confIn = FALSE
    /\ wire = <<>>
    /\ polls = 0
    /\ session = "new"
    /\ calls = 0
    /\ arg = <<>>
    /\ ackIn = FALSE
    /\ outstanding = 0
    /\ lastId = 255 * 256 + 255
    /\ RelativeHumidity = 0
    /\ outp = 0
    /\ buf = <<>>
    /\ retry = 0
    /\ nReads = 0

\* the fresh object on one of the transports; ProcessResponse is reached through
\* read_sds only
Init ==
    /\ Fresh
    /\ link \in Links
    /\ inp = <<>>

\* ------------------------------------------------------------ control flow
Idle == stack = <<>>

At(label) == stack # <<>> /\ Head(stack) = label

\* continue at `labels`, keeping the return addresses below the current position
Goto(labels) == stack' = labels \o Tail(stack)

\* return v from the current library function to its caller
Return(v) == stack' = Tail(stack) /\ ret' = v

\* a public operation is entered: the counters of what it does start at zero
Enter(name) ==
    /\ calls < MaxCalls
    /\ calls' = calls + 1
    /\ op' = name
    /\ nWrites' = 0
    /\ didRead' = FALSE
    /\ wfail' = FALSE
    /\ confIn' = FALSE
    /\ ackIn' = FALSE
    /\ polls' = 0
    /\ UNCHANGED <<outstanding, lastId, loc>>

\* the public operation returns v; its locals die
Finish(v) ==
    /\ stack' = <<>>
    /\ result' = v
    /\ ret' = 0
    /\ wait_i' = 0
    /\ tc_i' = 0
    /\ tc_j' = 0

\* ----------------------------------------------------------------- send_sds
\* send_sds, lines 531-535: the connection check, then the drain of a pending answer
send_sds ==
    /\ At("send_sds")
    /\ IF NotConnected(fd)
       THEN Return(SDS011_ERROR) /\ UNCHANGED wait_i
       ELSE Goto(<<"Wait_For_answer", "send_write">>) /\ wait_i' = 0 /\ UNCHANGED ret
    /\ UNCHANGED <<prog, tc_i, tc_j, api, sens, obs, calls, loc>>

\* the sensor side of a write(): it takes every whole frame and answers one in
\* AnswersEvery
SensorTakes(frame, n) ==
    IF link # "any" /\ n = SDS011_SENDPACKET_LEN
    THEN /\ probes' = (probes + 1) % AnswersEvery
         /\ rxq' = IF probes = AnswersEvery - 1 THEN rxq \o Answer(frame) ELSE rxq
    ELSE UNCHANGED <<probes, rxq>>

\* send_sds, lines 535-552: the result of the drain, the checksum, the write and the flag
send_sds_write ==
    /\ At("send_write")
    /\ IF ret = SDS011_ERROR
       THEN /\ Return(SDS011_ERROR)
            /\ UNCHANGED <<prog, probes, rxq, obs>>
       ELSE \E n \in WriteResults :
            LET pkt == [SDS011_Packet EXCEPT
                          ![18] = Calc_Checksum(SubSeq(SDS011_Packet, 3, 17))]
            IN
            /\ SDS011_Packet' = pkt
            /\ wire' = pkt
            /\ nWrites' = nWrites + 1
            /\ SensorTakes(pkt, n)
            /\ IF n # SDS011_SENDPACKET_LEN
               THEN /\ Return(SDS011_ERROR)
                    /\ wfail' = TRUE
                    /\ UNCHANGED <<PendingConfReq, polls, outstanding>>
               ELSE /\ Return(SDS011_OK)
                    /\ PendingConfReq' =
                          IF SetsPending(B(pkt, 2)) THEN TRUE ELSE PendingConfReq
                    /\ polls' = 0
                    /\ outstanding' = IF B(pkt, 2) # SDS011_QDATA /\ outstanding < 2
                                      THEN outstanding + 1 ELSE outstanding
                    /\ UNCHANGED wfail
            /\ ackIn' = FALSE
            /\ UNCHANGED <<fd, dev_id, data, didRead, confIn, session, lastId>>
    /\ UNCHANGED <<wait_i, tc_i, tc_j, api, link, calls, loc>>

\* ---------------------------------------------------------- Wait_For_answer
\* mutant of Wait_For_answer: the exhausted wait reports success
Wait_For_answer_GivesUpOk ==
    /\ At("Wait_For_answer")
    /\ IF ~PendingConfReq
       THEN Return(SDS011_OK) /\ UNCHANGED wait_i
       ELSE IF WaitExhausted(wait_i)
       THEN Return(SDS011_OK) /\ wait_i' = wait_i + 1
       ELSE /\ Goto(<<"read_sds", "Wait_For_answer">>)
            /\ wait_i' = wait_i + 1
            /\ UNCHANGED ret
    /\ UNCHANGED <<prog, tc_i, tc_j, api, sens, obs, calls, loc>>

\* Wait_For_answer, lines 189-198: one test of the loop and the call of read_sds
Wait_For_answer ==
    /\ At("Wait_For_answer")
    /\ IF ~PendingConfReq
       THEN Return(SDS011_OK) /\ UNCHANGED wait_i
       ELSE IF WaitExhausted(wait_i)
       THEN Return(SDS011_ERROR) /\ wait_i' = wait_i + 1
       ELSE /\ Goto(<<"read_sds", "Wait_For_answer">>)
            /\ wait_i' = wait_i + 1
            /\ UNCHANGED ret
    /\ UNCHANGED <<prog, tc_i, tc_j, api, sens, obs, calls, loc>>

\* ----------------------------------------------------------------- read_sds
\* read_sds, lines 562-589: the connection check, up to 5 read() calls, and the
\* parse of the first read that returned 10 bytes
read_sds ==
    /\ At("read_sds")
    /\ IF NotConnected(fd)
       THEN /\ Return(SDS011_ERROR)
            /\ UNCHANGED <<data, PendingConfReq, dev_id, confIn, didRead, rxq,
                           ackIn, outstanding, lastId>>
       ELSE \E run \in ReadRuns :
            LET pr == ProcessResponse(run.frame, SDS011_PACKET_LEN)
                gotConf == pr.rc = SDS011_OK /\ pr.data.cmd_id = SDS011_CONF
            IN
            /\ didRead' = TRUE
            /\ rxq' = IF run.take = 1 THEN Tail(rxq) ELSE rxq
            /\ IF run.shorts < ReadRetry
               THEN /\ data' = pr.data
                    /\ PendingConfReq' = pr.pend
                    /\ confIn' = (confIn \/ gotConf)
                    /\ outstanding' = IF gotConf THEN 0 ELSE outstanding
                    /\ ackIn' = \/ ackIn
                                \/ /\ gotConf
                                   /\ nWrites >= 1
                                   /\ ~wfail
                                   /\ pr.data.confcmd = B(wire, 2)
                    /\ IF pr.rc = SDS011_ERROR
                       THEN Return(SDS011_ERROR) /\ UNCHANGED <<dev_id, lastId>>
                       ELSE /\ Return(SDS011_OK)
                            /\ lastId' = run.frame[8] * 256 + run.frame[7]
                            /\ dev_id' = <<pr.data.devid % 256,
                                           (pr.data.devid \div 256) % 256>>
               ELSE /\ Return(SDS011_ERROR)
                    /\ UNCHANGED <<data, PendingConfReq, dev_id, confIn, ackIn,
                                   outstanding, lastId>>
    /\ UNCHANGED <<fd, SDS011_Packet, wait_i, tc_i, tc_j, api, link, probes,
                   nWrites, wfail, wire, polls, session, calls, loc>>

\* ------------------------------------------------------- begin / Try_Connect
Fds == {3}

\* begin(fd) = Try_Connect(fd), lines 448-454: up to the first send_sds
begin ==
    /\ Idle
    /\ \E f \in Fds : fd' = f /\ arg' = <<f>>
    /\ SDS011_Packet' = prepare_packet(SDS011_FWVER)
    /\ stack' = <<"send_sds", "tc_sent">>
    /\ Enter("begin")
    /\ result' = -1
    /\ session' = "connecting"
    /\ UNCHANGED <<PendingConfReq, dev_id, data, ret, wait_i, tc_i, tc_j, sens, wire>>

\* Try_Connect, lines 454-457: the result of the first send_sds
Try_Connect_sent ==
    /\ At("tc_sent")
    /\ IF ret = SDS011_ERROR
       THEN Finish(SDS011_ERROR) /\ session' = "failed"
       ELSE /\ Goto(<<"tc_loop">>)
            /\ tc_i' = 0
            /\ tc_j' = 0
            /\ UNCHANGED <<ret, wait_i, result, session>>
    /\ UNCHANGED <<prog, op, arg, sens, nWrites, didRead, wfail, confIn, wire, polls,
                   ackIn, outstanding, lastId, calls, loc>>

\* Try_Connect, lines 459-462 and 477: the loop test and the poll
Try_Connect_loop ==
    /\ At("tc_loop")
    /\ IF PendingConfReq
       THEN /\ Goto(<<"read_sds", "tc_polled">>)
            /\ polls' = polls + 1
            /\ UNCHANGED <<ret, wait_i, tc_i, tc_j, result, session>>
       ELSE /\ Finish(SDS011_OK)
            /\ session' = "usable"
            /\ UNCHANGED polls
    /\ UNCHANGED <<prog, op, arg, sens, nWrites, didRead, wfail, confIn, wire,
                   ackIn, outstanding, lastId, calls, loc>>

\* Try_Connect, lines 464-470: after a poll, the resend decision
Try_Connect_polled ==
    /\ At("tc_polled")
    /\ IF ResendDue(tc_i, PendingConfReq)
       THEN /\ tc_i' = 0
            /\ PendingConfReq' = FALSE
            /\ Goto(<<"send_sds", "tc_resent">>)
       ELSE /\ tc_i' = tc_i + 1
            /\ Goto(<<"tc_loop">>)
            /\ UNCHANGED PendingConfReq
    /\ UNCHANGED <<fd, dev_id, SDS011_Packet, data, ret, wait_i, tc_j, api, sens,
                   obs, calls, loc>>

\* mutant of Try_Connect_resent: the exhausted connect reports success
Try_Connect_resent_ReportsOk ==
    /\ At("tc_resent")
    /\ IF ret = SDS011_ERROR \/ ResendsExhausted(tc_j)
       THEN /\ Finish(SDS011_OK)
            /\ session' = "usable"
            /\ UNCHANGED fd
       ELSE /\ tc_j' = tc_j + 1
            /\ Goto(<<"tc_loop">>)
            /\ UNCHANGED <<fd, ret, wait_i, tc_i, result, session>>
    /\ UNCHANGED <<PendingConfReq, dev_id, SDS011_Packet, data, op, arg, sens,
                   nWrites, didRead, wfail, confIn, wire, polls, ackIn, outstanding,
                   lastId, calls, loc>>

\* Try_Connect, lines 470-474: the result of a resend
Try_Connect_resent ==
    /\ At("tc_resent")
    /\ IF ret = SDS011_ERROR \/ ResendsExhausted(tc_j)
       THEN /\ fd' = NoFd
            /\ Finish(SDS011_ERROR)
            /\ session' = "failed"
       ELSE /\ tc_j' = tc_j + 1
            /\ Goto(<<"tc_loop">>)
            /\ UNCHANGED <<fd, ret, wait_i, tc_i, result, session>>
    /\ UNCHANGED <<PendingConfReq, dev_id, SDS011_Packet, data, op, arg, sens,
                   nWrites, didRead, wfail, confIn, wire, polls, ackIn, outstanding,
                   lastId, calls, loc>>

\* ---------------------------------------------------------------- Get_Param
Params == {SDS011_MODE, SDS011_PERIOD}

\* Get_Param(c, p), lines 228-238: Get_data_reporting_mode, Get_Sleep_Work_mode,
\* Get_Working_Period
Get_Param ==
    /\ Idle
    /\ \E c \in Params : SDS011_Packet' = prepare_packet(c) /\ arg' = <<c>>
    /\ stack' = <<"send_sds", "gp_sent">>
    /\ Enter("Get_Param")
    /\ result' = -1
    /\ UNCHANGED <<fd, PendingConfReq, dev_id, data, ret, wait_i, tc_i, tc_j,
                   sens, wire, session>>

\* mutant of Get_Param_sent: the result of send_sds is not looked at
Get_Param_sent_IgnoresError ==
    /\ At("gp_sent")
    /\ Goto(<<"Wait_For_answer", "gp_waited">>)
    /\ wait_i' = 0
    /\ UNCHANGED <<ret, tc_i, tc_j, result>>
    /\ UNCHANGED <<prog, op, arg, sens, obs, calls, loc>>

\* Get_Param, lines 238-241
Get_Param_sent ==
    /\ At("gp_sent")
    /\ IF ret = SDS011_ERROR
       THEN Finish(SDS011_ERROR)
       ELSE /\ Goto(<<"Wait_For_answer", "gp_waited">>)
            /\ wait_i' = 0
            /\ UNCHANGED <<ret, tc_i, tc_j, result>>
    /\ UNCHANGED <<prog, op, arg, sens, obs, calls, loc>>

\* mutant of Get_Param_waited: the result of the wait is not looked at
Get_Param_waited_AlwaysOk ==
    /\ At("gp_waited")
    /\ Finish(SDS011_OK)
    /\ UNCHANGED <<prog, op, arg, sens, obs, calls, loc>>

\* Get_Param, lines 241-248
Get_Param_waited ==
    /\ At("gp_waited")
    /\ Finish(IF ret = SDS011_ERROR THEN SDS011_ERROR ELSE SDS011_OK)
    /\ UNCHANGED <<prog, op, arg, sens, obs, calls, loc>>

\* ---------------------------------------------------------------- Set_Param
\* the calls of Set_Param the model makes: Set_Working_Period(0), (30), (31) and
\* (255), Set_data_reporting_mode(2) and Set_Sleep_Work_Mode(2)
SetInputs ==
    {<<SDS011_PERIOD, 0>>, <<SDS011_PERIOD, PeriodMax>>,
     <<SDS011_PERIOD, PeriodMax + 1>>, <<SDS011_PERIOD, 255>>,
     <<SDS011_MODE, 2>>, <<SDS011_SLEEP, 2>>}

\* mutant of BadPeriod: the largest period is refused
BadPeriod_RefusesMax(mode, p) == mode = SDS011_PERIOD /\ (p < 0 \/ p >= PeriodMax)

\* Set_Param, line 299: if (mode == SDS011_PERIOD) if (p < 0 || p > 30)
BadPeriod(mode, p) == mode = SDS011_PERIOD /\ (p < 0 \/ p > PeriodMax)

\* Set_Param(mode, p), lines 297-331: Set_data_reporting_mode, Set_Sleep_Work_Mode,
\* Set_Working_Period
Set_Param ==
    /\ Idle
    /\ Enter("Set_Param")
    /\ \E in \in SetInputs :
       LET mode == in[1]
           p    == in[2]
       IN
       /\ arg' = in
       /\ IF BadPeriod(mode, p)
          THEN /\ Finish(SDS011_ERROR)
               /\ UNCHANGED SDS011_Packet
          ELSE /\ SDS011_Packet' = [prepare_packet(mode) EXCEPT ![4] = 1, ![5] = p]
               /\ stack' = <<"send_sds", "sp_sent">>
               /\ result' = -1
               /\ UNCHANGED <<ret, wait_i, tc_i, tc_j>>
    /\ UNCHANGED <<fd, PendingConfReq, dev_id, data, sens, wire, session>>

\* Set_Param, lines 331-337
Set_Param_sent ==
    /\ At("sp_sent")
    /\ IF ret = SDS011_ERROR
       THEN Finish(SDS011_ERROR)
       ELSE /\ Goto(<<"Wait_For_answer", "sp_waited">>)
            /\ wait_i' = 0
            /\ UNCHANGED <<ret, tc_i, tc_j, result>>
    /\ UNCHANGED <<prog, op, arg, sens, obs, calls, loc>>

\* Set_Param, line 337: return(Wait_For_answer())
Set_Param_waited ==
    /\ At("sp_waited")
    /\ Finish(ret)
    /\ UNCHANGED <<prog, op, arg, sens, obs, calls, loc>>

\* -------------------------------------------------------------- Report_Data
\* Report_Data(rmode, PM25, PM10), lines 356-368: Query_data sends the data query
\* first, Get_data only reads
Report_Data ==
    /\ Idle
    /\ result' = -1
    /\ \E rmode \in {REPORT_STREAM, REPORT_QUERY} :
       IF rmode = REPORT_QUERY
       THEN /\ SDS011_Packet' = prepare_packet(SDS011_QDATA)
            /\ stack' = <<"send_sds", "rd_sent">>
            /\ Enter("Query_data")
            /\ arg' = <<rmode>>
       ELSE /\ stack' = <<"read_sds", "rd_read">>
            /\ Enter("Get_data")
            /\ arg' = <<rmode>>
            /\ UNCHANGED SDS011_Packet
    /\ UNCHANGED <<fd, PendingConfReq, dev_id, data, ret, wait_i, tc_i, tc_j,
                   sens, wire, session>>

\* Report_Data, lines 362-368
Report_Data_sent ==
    /\ At("rd_sent")
    /\ IF ret = SDS011_ERROR
       THEN Finish(SDS011_ERROR)
       ELSE /\ Goto(<<"read_sds", "rd_read">>)
            /\ UNCHANGED <<ret, wait_i, tc_i, tc_j, result>>
    /\ UNCHANGED <<prog, op, arg, sens, obs, calls, loc>>

\* Report_Data, lines 368-374
Report_Data_read ==
    /\ At("rd_read")
    /\ Finish(IF ret = SDS011_ERROR THEN SDS011_ERROR ELSE SDS011_OK)
    /\ UNCHANGED <<prog, op, arg, sens, obs, calls, loc>>

\* ----------------------------------------------------- Get_Firmware_Version
\* Get_Firmware_Version(fwdata), lines 393-395
Get_Firmware_Version ==
    /\ Idle
    /\ SDS011_Packet' = prepare_packet(SDS011_FWVER)
    /\ stack' = <<"send_sds", "fw_sent">>
    /\ Enter("Get_Firmware_Version")
    /\ result' = -1
    /\ arg' = <<>>
    /\ UNCHANGED <<fd, PendingConfReq, dev_id, data, ret, wait_i, tc_i, tc_j,
                   sens, wire, session>>

\* Get_Firmware_Version, lines 395-398
Get_Firmware_Version_sent ==
    /\ At("fw_sent")
    /\ IF ret = SDS011_ERROR
       THEN Finish(SDS011_ERROR)
       ELSE /\ Goto(<<"Wait_For_answer", "fw_waited">>)
            /\ wait_i' = 0
            /\ UNCHANGED <<ret, tc_i, tc_j, result>>
    /\ UNCHANGED <<prog, op, arg, sens, obs, calls, loc>>

\* Get_Firmware_Version, lines 398-404
Get_Firmware_Version_waited ==
    /\ At("fw_waited")
    /\ Finish(IF ret = SDS011_ERROR THEN SDS011_ERROR ELSE SDS011_OK)
    /\ UNCHANGED <<prog, op, arg, sens, obs, calls, loc>>

\* ------------------------------------------------------------ Set_New_Devid
NewIds == {<<IdB % 256, IdB \div 256>>}

\* mutant of Set_New_Devid: the new id is cached before the sensor confirms it
Set_New_Devid_CachesId ==
    /\ Idle
    /\ Enter("Set_New_Devid")
    /\ \E newid \in NewIds :
       /\ arg' = newid
       /\ IF NotConnected(fd)
          THEN /\ Finish(SDS011_ERROR)
               /\ UNCHANGED <<SDS011_Packet, dev_id>>
          ELSE /\ SDS011_Packet' = [prepare_packet(SDS011_DEVID) EXCEPT
                                       ![14] = newid[1], ![15] = newid[2]]
               /\ dev_id' = newid
               /\ stack' = <<"send_sds", "nd_sent">>
               /\ result' = -1
               /\ UNCHANGED <<ret, wait_i, tc_i, tc_j>>
    /\ UNCHANGED <<fd, PendingConfReq, data, sens, wire, session>>

\* Set_New_Devid(newid), lines 500-510
Set_New_Devid ==
    /\ Idle
    /\ Enter("Set_New_Devid")
    /\ \E newid \in NewIds :
       /\ arg' = newid
       /\ IF NotConnected(fd)
          THEN /\ Finish(SDS011_ERROR)
               /\ UNCHANGED SDS011_Packet
          ELSE /\ SDS011_Packet' = [prepare_packet(SDS011_DEVID) EXCEPT
                                       ![14] = newid[1], ![15] = newid[2]]
               /\ stack' = <<"send_sds", "nd_sent">>
               /\ result' = -1
               /\ UNCHANGED <<ret, wait_i, tc_i, tc_j>>
    /\ UNCHANGED <<fd, PendingConfReq, dev_id, data, sens, wire, session>>

\* Set_New_Devid, lines 510-516
Set_New_Devid_sent ==
    /\ At("nd_sent")
    /\ IF ret = SDS011_ERROR
       THEN Finish(SDS011_ERROR)
       ELSE /\ Goto(<<"Wait_For_answer", "nd_waited">>)
            /\ wait_i' = 0
            /\ UNCHANGED <<ret, tc_i, tc_j, result>>
    /\ UNCHANGED <<prog, op, arg, sens, obs, calls, loc>>

\* Set_New_Devid, line 516: return(Wait_For_answer())
Set_New_Devid_waited ==
    /\ At("nd_waited")
    /\ Finish(ret)
    /\ UNCHANGED <<prog, op, arg, sens, obs, calls, loc>>

\* ----------------------------------------------------- functions without I/O
\* Set_Humidity_Cor and ProcessResponse touch no file descriptor.  SpecLocal calls
\* them directly on the fresh object: ProcessResponse with the buffer `inp` that
\* InitLocal draws, which the serial line of Spec would take too many states to
\* deliver.
HumInputs == {-1, 0, 30, HumidityMax, HumidityMax + 1}

\* mutant of BadHumidity: the test of sds011_lib.c, which refuses 0
BadHumidity_RefusesZero(h) == h < 1 \/ h > HumidityMax

\* Set_Humidity_Cor, line 419: if (h < 0 || h > 100)
BadHumidity(h) == h < 0 \/ h > HumidityMax

\* Set_Humidity_Cor(h), lines 417-422
Set_Humidity_Cor ==
    /\ Idle
    /\ op' = "Set_Humidity_Cor"
    /\ \E h \in HumInputs :
       /\ arg' = <<h>>
       /\ IF BadHumidity(h)
          THEN result' = SDS011_ERROR /\ UNCHANGED RelativeHumidity
          ELSE result' = SDS011_OK /\ RelativeHumidity' = h
    /\ UNCHANGED <<prog, ctl, sens, obs, calls, inp, outp, rds>>

\* well-formed response frames: the two of ValidFrames, an answer to
\* Set_data_reporting_mode from the sensor 0x1234, and a frame whose bytes 2..7 are 0
LocalFrames ==
    ValidFrames \cup {MkFrame(SDS011_CONF, SDS011_MODE, 1, REPORT_QUERY, 0, IdB),
                      MkFrame(SDS011_DATA, 0, 0, 0, 0, 0)}

\* measurement frames with the right checksum: every combination of 0, 100 and 255
\* in the four value bytes
ValueBytes == {0, 100, 255}

MeasuredFrames ==
    {MkFrame(SDS011_DATA, a, b, c, d, IdA) :
        a \in ValueBytes, b \in ValueBytes, c \in ValueBytes, d \in ValueBytes}

\* byte values tried where not all 256 are
EdgeBytes ==
    {0, 1, 255, SDS011_BYTE_BEGIN, SDS011_BYTE_END, SDS011_BYTE_CMD, SDS011_DATA,
     SDS011_CONF}

\* The buffers ProcessResponse(packet, length) is called with: a well-formed frame
\* `base` with the byte at `pos` replaced, by every byte value in the measurement
\* frame of ValidFrames and by the EdgeBytes and the neighbours of the old value
\* in the other frames; buffers of 9 and 11 bytes (pos = -1); and the
\* MeasuredFrames as they are.
ParseInputs ==
    {[packet |-> [f EXCEPT ![pos + 1] = v], length |-> SDS011_PACKET_LEN,
      base |-> f, pos |-> pos] :
         f \in {MkFrame(SDS011_DATA, 100, 0, 200, 0, IdA)}, pos \in 0..9, v \in 0..255}
    \cup
    UNION {{[packet |-> [f EXCEPT ![pos + 1] = v], length |-> SDS011_PACKET_LEN,
             base |-> f, pos |-> pos] :
               v \in EdgeBytes \cup {(f[pos + 1] + 1) % 256, (f[pos + 1] + 255) % 256}} :
           f \in LocalFrames, pos \in 0..9}
    \cup
    {[packet |-> SubSeq(f, 1, 8) \o <<SDS011_BYTE_END>>, length |-> 9,
      base |-> f, pos |-> -1] : f \in LocalFrames}
    \cup
    {[packet |-> f \o <<SDS011_BYTE_END>>, length |-> 11,
      base |-> f, pos |-> -1] : f \in LocalFrames}
    \cup
    {[packet |-> f, length |-> SDS011_PACKET_LEN, base |-> f, pos |-> 0] :
        f \in MeasuredFrames}

\* ProcessResponse(packet, length), lines 105-170, called on its own
ProcessResponse_call ==
    /\ Idle
    /\ calls < MaxParses
    /\ calls' = calls + 1
    /\ LET pr == ProcessResponse(inp.packet, inp.length)
       IN
       /\ outp' = pr.rc
       /\ data' = pr.data
       /\ PendingConfReq' = pr.pend
    /\ UNCHANGED <<fd, dev_id, SDS011_Packet, ctl, api, sens, obs, RelativeHumidity, inp,
                   rds>>

InitLocal ==
    /\ Fresh
    /\ link = "query"
    /\ inp \in ParseInputs

NextLocal ==
    \/ Set_Humidity_Cor
    \/ ProcessResponse_call

SpecLocal == InitLocal /\ [][NextLocal]_vars

\* ------------------------------------------------------------- Calc_Checksum
\* SpecSum calls Calc_Checksum(packet + first, length) on the spans `inp` that
\* InitSum draws.
SumBytes == {0, 1, 127, 128, 255}

\* every span of up to 3 SumBytes; the spans the library sums, bytes 2..16 of a
\* command frame (line 538) and bytes 2..7 of a response
\* frame (line 119); and a whole command buffer of 0xFF, whose sum wraps 18 times
SumInputs ==
    {[packet |-> q, first |-> 0, length |-> Len(q)] :
        q \in UNION {[1..n -> SumBytes] : n \in 0..3}}
    \cup
    {[packet |-> [i \in 1..SDS011_SENDPACKET_LEN |->
                    CASE i = 1 -> SDS011_BYTE_BEGIN
                      [] i = 2 -> SDS011_BYTE_CMD
                      [] i = 3 -> c
                      [] i \in {16, 17} -> 255
                      [] i = SDS011_SENDPACKET_LEN -> SDS011_BYTE_END
                      [] OTHER -> 0],
      first |-> 2, length |-> 15] :
        c \in {SDS011_MODE, SDS011_QDATA, SDS011_DEVID, SDS011_SLEEP, SDS011_FWVER,
               SDS011_PERIOD}}
    \cup
    {[packet |-> f, first |-> 2, length |-> 6] : f \in LocalFrames}
    \cup
    {[packet |-> [i \in 1..SDS011_SENDPACKET_LEN |-> 255], first |-> 0,
      length |-> SDS011_SENDPACKET_LEN]}

\* Calc_Checksum(packet, length), lines 84-93, called on its own
Calc_Checksum_call ==
    /\ Idle
    /\ calls < MaxParses
    /\ calls' = calls + 1
    /\ op' = "Calc_Checksum"
    /\ outp' = Calc_Checksum(SubSeq(inp.packet, inp.first + 1, inp.first + inp.length))
    /\ UNCHANGED <<prog, ctl, result, arg, sens, obs, RelativeHumidity, inp, rds>>

InitSum ==
    /\ Fresh
    /\ link = "query"
    /\ inp \in SumInputs

NextSum == Calc_Checksum_call

SpecSum == InitSum /\ [][NextSum]_vars

\* ------------------------------------------------- read_sds, read by read
\* SpecRead runs read_sds one read() call at a step, on a line that hands out the
\* byte chunks of `rxq` in order, one chunk to each read() and nothing (a timeout)
\* when no chunk is left; it calls ProcessResponse directly on the buffer `inp`;
\* and it prepares and sends a command while no answer is pending.

\* mutant of RetriesCountedDown: the loop gives up one read early
RetriesCountedDown_AtOne(r) == r = 1

\* read_sds, line 577: if (retry == 0) return(SDS011_ERROR)
RetriesCountedDown(r) == r = 0

\* frames a read of 10 bytes can deliver: the LocalFrames and BadFrames, a frame
\* with a wrong first byte, one with a wrong last byte, and one with the unknown
\* marker 0xC1 and a right checksum
ReadFrames ==
    LocalFrames \cup BadFrames \cup
    {[MkFrame(SDS011_CONF, SDS011_FWVER, 18, 11, 16, IdA) EXCEPT ![1] = 0],
     [MkFrame(SDS011_CONF, SDS011_FWVER, 18, 11, 16, IdA) EXCEPT ![10] = 0],
     MkFrame(193, 1, 2, 3, 4, IdA)}

\* device ids with each byte at its ends and in the middle
EdgeIds == {lo + 256 * hi : lo \in {0, 1, 128, 255}, hi \in {0, 1, 128, 255}}

\* a measurement frame from each of the EdgeIds
IdFrames == {MkFrame(SDS011_DATA, 1, 0, 2, 0, id) : id \in EdgeIds}

\* what a read() that does not return 10 bytes can have put into buf: nothing, one
\* byte, or the first 9 bytes of a frame
ShortReads(f) == {<<>>, <<SDS011_BYTE_BEGIN>>, SubSeq(f, 1, 9)}

\* k copies of the chunk c
Copies(k, c) == [i \in 1..k |-> c]

\* The chunk sequences of a line: up to ReadRetry equal short reads and then a
\* frame; a valid frame split over two reads, of 4 and 6 bytes, alone and followed
\* by a whole frame; two frames one after the other; a frame from each of the
\* EdgeIds; and a silent line.
ReadPlans ==
    UNION {{Copies(k, c) \o <<f>> : k \in 0..ReadRetry, c \in ShortReads(f)} :
           f \in ReadFrames}
    \cup
    {<<SubSeq(f, 1, 4), SubSeq(f, 5, 10)>> : f \in ValidFrames}
    \cup
    {<<SubSeq(f, 1, 4), SubSeq(f, 5, 10), g>> : f \in ValidFrames, g \in ValidFrames}
    \cup
    {<<f, g>> : f \in ValidFrames, g \in ValidFrames}
    \cup
    {<<f>> : f \in IdFrames}
    \cup
    {<<>>}

\* buffers for the direct calls of ProcessResponse: a valid frame, and the frame
\* cut to 9 and grown to 11 bytes with 0xAB as the last byte
DirectInputs ==
    LET f == MkFrame(SDS011_CONF, SDS011_FWVER, 18, 11, 16, IdA)
    IN
    {[packet |-> f, length |-> SDS011_PACKET_LEN, base |-> f, pos |-> 0],
     [packet |-> SubSeq(f, 1, 8) \o <<SDS011_BYTE_END>>, length |-> 9,
      base |-> f, pos |-> -1],
     [packet |-> f \o <<SDS011_BYTE_END>>, length |-> 11, base |-> f, pos |-> -1]}

\* read_sds, lines 562-568: the locals and the connection check
read_sds_entry ==
    /\ Idle
    /\ calls < MaxParses
    /\ calls' = calls + 1
    /\ op' = "read_sds"
    /\ nReads' = 0
    /\ retry' = ReadRetry
    /\ buf' = <<>>
    /\ IF NotConnected(fd)
       THEN outp' = SDS011_ERROR /\ UNCHANGED stack
       ELSE stack' = <<"rs_loop">> /\ UNCHANGED outp
    /\ UNCHANGED <<prog, ret, wait_i, tc_i, tc_j, result, arg, sens, obs,
                   RelativeHumidity, inp>>

\* read_sds, lines 570-588: one turn of `while (retry--)`, which is entered with
\* retry > 0 only: read() fills the front of buf with the next chunk; 10 bytes end
\* the loop and are parsed, fewer end the call when retry has counted down
read_sds_read ==
    /\ At("rs_loop")
    /\ retry # 0
    /\ LET chunk == IF rxq = <<>> THEN <<>> ELSE Head(rxq)
           filled == chunk \o SubSeq(buf, Len(chunk) + 1, Len(buf))
           pr == ProcessResponse(SubSeq(filled, 1, SDS011_PACKET_LEN), SDS011_PACKET_LEN)
       IN
       /\ retry' = retry - 1
       /\ nReads' = nReads + 1
       /\ rxq' = IF rxq = <<>> THEN rxq ELSE Tail(rxq)
       /\ buf' = filled
       /\ IF Len(chunk) = SDS011_PACKET_LEN
          THEN /\ stack' = <<>>
               /\ outp' = pr.rc
               /\ data' = pr.data
               /\ PendingConfReq' = pr.pend
               /\ IF pr.rc = SDS011_ERROR
                  THEN UNCHANGED <<dev_id, lastId>>
                  ELSE /\ dev_id' = <<pr.data.devid % 256, (pr.data.devid \div 256) % 256>>
                       /\ lastId' = filled[8] * 256 + filled[7]
          ELSE /\ IF RetriesCountedDown(retry - 1)
                  THEN stack' = <<>> /\ outp' = SDS011_ERROR
                  ELSE UNCHANGED <<stack, outp>>
               /\ UNCHANGED <<data, PendingConfReq, dev_id, lastId>>
    /\ UNCHANGED <<fd, SDS011_Packet, ret, wait_i, tc_i, tc_j, api, link, probes,
                   nWrites, didRead, wfail, confIn, wire, polls, session, ackIn,
                   outstanding, calls, RelativeHumidity, inp>>

\* prepare_packet(c) followed by send_sds(), as lines 393-395 and 359-362 call
\* them, entered while no answer is pending, so that the drain of send_sds returns
\* without a read
send_call ==
    /\ Idle
    /\ calls < MaxParses
    /\ ~PendingConfReq
    /\ calls' = calls + 1
    /\ op' = "send_sds"
    /\ \E c \in {SDS011_FWVER, SDS011_QDATA} :
       /\ arg' = <<c>>
       /\ SDS011_Packet' = prepare_packet(c)
    /\ stack' = <<"send_sds">>
    /\ UNCHANGED <<fd, PendingConfReq, dev_id, data, ret, wait_i, tc_i, tc_j, result,
                   sens, obs, loc>>

\* read_sds can be called with or without a connection, with or without a
\* configuration request pending, and with either id cached
InitRead ==
    /\ fd \in Fds \cup {NoFd}
    /\ PendingConfReq \in BOOLEAN
    /\ dev_id \in {<<255, 255>>, <<IdB % 256, IdB \div 256>>}
    /\ lastId = dev_id[2] * 256 + dev_id[1]
    /\ rxq \in ReadPlans
    /\ inp \in DirectInputs
    /\ link = "query"
    /\ SDS011_Packet = Zeros(SDS011_SENDPACKET_LEN)
    /\ data = NoData
    /\ stack = <<>>
    /\ ret = 0
    /\ wait_i = 0
    /\ tc_i = 0
    /\ tc_j = 0
    /\ op = "none"
    /\ result = -1
    /\ probes = 0
    /\ nWrites = 0
    /\ didRead = FALSE
    /\ wfail = FALSE
    /\ confIn = FALSE
    /\ wire = <<>>
    /\ polls = 0
    /\ session = "new"
    /\ calls = 0
    /\ arg = <<>>
    /\ ackIn = FALSE
    /\ outstanding = 0
    /\ RelativeHumidity = 0
    /\ outp = 0
    /\ buf = <<>>
    /\ retry = 0
    /\ nReads = 0

NextRead ==
    \/ read_sds_entry
    \/ read_sds_read
    \/ ProcessResponse_call
    \/ send_call
    \/ send_sds
    \/ Wait_For_answer
    \/ send_sds_write

SpecRead == InitRead /\ [][NextRead]_vars

\* --------------------------------------------------------------------- Next
Next ==
    \/ begin
    \/ Try_Connect_sent
    \/ Try_Connect_loop
    \/ Try_Connect_polled
    \/ Try_Connect_resent
    \/ Get_Param
    \/ Get_Param_sent
    \/ Get_Param_waited
    \/ Set_Param
    \/ Set_Param_sent
    \/ Set_Param_waited
    \/ Report_Data
    \/ Report_Data_sent
    \/ Report_Data_read
    \/ Get_Firmware_Version
    \/ Get_Firmware_Version_sent
    \/ Get_Firmware_Version_waited
    \/ Set_New_Devid
    \/ Set_New_Devid_sent
    \/ Set_New_Devid_waited
    \/ send_sds
    \/ send_sds_write
    \/ Wait_For_answer
    \/ read_sds

Spec == Init /\ [][Next]_vars

TypeOK ==
    /\ fd \in Fds \cup {NoFd}
    /\ PendingConfReq \in BOOLEAN
    /\ Len(SDS011_Packet) = SDS011_SENDPACKET_LEN
    /\ wait_i \in 0..(WaitMax + 2)
    /\ tc_i \in 0..(PollMark + 1)
    /\ tc_j \in 0..(ResendMax + 1)
    /\ Len(stack) <= 4
    /\ Len(rxq) <= 3 * MaxCalls
    /\ outstanding \in 0..2
    /\ ackIn \in BOOLEAN
    /\ RelativeHumidity \in 0..HumidityMax
    /\ result \in {-1, SDS011_OK, SDS011_ERROR}
    /\ retry \in 0..ReadRetry
    /\ nReads \in 0..ReadRetry
    /\ Len(buf) <= SDS011_PACKET_LEN
    /\ At("rs_loop") => retry > 0

\* =================================================================== claims

\* C1: send_sds hands a frame to write() only in a state where _PendingConfReq is
\* false.  A connected send_sds first runs Wait_For_answer, without writing, and when
\* that drain returns SDS011_ERROR send_sds returns SDS011_ERROR and writes nothing.
C1_WriteOnlyWhenNotPending ==
    [][ /\ (nWrites' = nWrites + 1) => ~PendingConfReq
        /\ (At("send_sds") /\ ~NotConnected(fd)) =>
              (Head(stack') = "Wait_For_answer" /\ nWrites' = nWrites)
        /\ (At("send_write") /\ ret = SDS011_ERROR) =>
              (nWrites' = nWrites /\ ret' = SDS011_ERROR /\ stack' = Tail(stack))
      ]_vars

\* C1 witness: send_sds is about to write after a drain that had to read
C1_Witness == At("send_write") /\ ret = SDS011_OK /\ wait_i > 0

\* C2: after send_sds has written the data query for Report_Data and returned
\* SDS011_OK, _PendingConfReq is false (it was false at the write, by C1).
C2_DataQueryLeavesFlag ==
    (At("rd_sent") /\ ret = SDS011_OK) => ~PendingConfReq

\* C3: on a connected session, after a configuration command (any command but the
\* data query) was written, the parse of a response clears _PendingConfReq only when
\* the response is a configuration frame whose sub-command id is the command id of
\* the frame written last; a response to another command leaves the flag set.
C3_OnlyMatchingClears ==
    [][ (/\ At("read_sds")
         /\ session = "usable"
         /\ PendingConfReq
         /\ B(wire, 2) # SDS011_QDATA
         /\ ~PendingConfReq') =>
            (data'.cmd_id = SDS011_CONF /\ data'.confcmd = B(wire, 2))
      ]_vars

\* C4: a valid measurement frame parsed while _PendingConfReq is true leaves it
\* true; Wait_For_answer does not return SDS011_OK while the flag is true; and a
\* parse that clears the flag is the parse of a configuration frame.
C4_DataFrameKeepsWaiting ==
    [][ /\ (At("read_sds") /\ PendingConfReq /\ ret' = SDS011_OK
              /\ data'.cmd_id = SDS011_DATA) => PendingConfReq'
        /\ (At("Wait_For_answer") /\ PendingConfReq) =>
              ~(stack' = Tail(stack) /\ ret' = SDS011_OK)
        /\ (At("read_sds") /\ PendingConfReq /\ ~PendingConfReq') =>
              data'.cmd_id = SDS011_CONF
      ]_vars

\* C4 witness: back at the loop test of Wait_For_answer after read_sds parsed a
\* measurement frame, the flag still set
C4_Witness ==
    /\ At("Wait_For_answer")
    /\ wait_i >= 1
    /\ ret = SDS011_OK
    /\ data.cmd_id = SDS011_DATA
    /\ PendingConfReq

\* C5: a Wait_For_answer that never sees the flag cleared calls read_sds at most 20
\* times: wait_i, at the entry of a read_sds called by Wait_For_answer, is the number
\* of read_sds calls this wait has made, the current one included.
C5_AtMostTwentyAttempts ==
    (At("read_sds") /\ Len(stack) >= 2 /\ stack[2] = "Wait_For_answer") =>
        wait_i <= WaitMax

\* C6: in Try_Connect, after the 2nd unanswered poll since the probe was last
\* written, the probe is sent again.
C6_ResendAfterTwoPolls ==
    [][ (At("tc_polled") /\ PendingConfReq /\ polls = 2) =>
            Head(stack') = "send_sds"
      ]_vars

\* C7: a begin() on the fresh object that returns SDS011_ERROR although every
\* write() took the whole frame and no valid configuration frame was parsed has
\* written the probe 11 times, the first probe and 10 resends.
C7_TenResends ==
    (Idle /\ op = "begin" /\ calls = 1 /\ result = SDS011_ERROR /\ ~wfail /\ ~confIn) =>
        nWrites = 1 + ResendMax

\* C8: on the line whose sensor ignores two probes and answers each third one, the
\* answer being read by a following poll, a begin() that has written its probe
\* returns SDS011_OK: it never gives up before the answered probe.
C8_ThirdProbeAnswered ==
    (link = "third" /\ Idle /\ op = "begin" /\ nWrites >= 1) => result = SDS011_OK

\* C8 witness: begin() has returned SDS011_OK after writing the probe three times
C8_Witness ==
    link = "third" /\ Idle /\ op = "begin" /\ result = SDS011_OK /\ nWrites = 3

\* C9: as long as begin() has never been called, no operation calls write() or
\* read(), and every operation that has returned has returned SDS011_ERROR.
C9_NotConnectedFailsFast ==
    session = "new" =>
        /\ nWrites = 0
        /\ ~didRead
        /\ (Idle /\ op # "none") => result = SDS011_ERROR

\* C9 witness: three operations have run on the fresh object, the last a data query
C9_Witness ==
    /\ session = "new"
    /\ Idle
    /\ calls = MaxCalls
    /\ op = "Query_data"
    /\ result = SDS011_ERROR

\* C10: after begin() has returned SDS011_ERROR and until it is called again, no
\* operation calls write() or read(), and every operation that has returned has
\* returned SDS011_ERROR.
C10_FailedStaysUnusable ==
    (session = "failed" /\ op # "begin") =>
        /\ nWrites = 0
        /\ ~didRead
        /\ Idle => result = SDS011_ERROR

\* C11: on the line whose sensor answers every command with exactly one frame and
\* sends nothing else, every Query_data on a connected session writes its query
\* frame once and returns SDS011_OK, also when the call before it was a Query_data.
C11_EveryQuerySucceeds ==
    (link = "query" /\ session = "usable" /\ Idle /\ op = "Query_data") =>
        (result = SDS011_OK /\ nWrites = 1)

\* C12: once an operation has parsed, after its last write, the configuration frame
\* that answers the command written (whatever read_sds calls failed or delivered
\* measurement frames before it), _PendingConfReq is false, and when the operation
\* has returned it has returned SDS011_OK.
C12_AckCompletes ==
    ackIn => (~PendingConfReq /\ (Idle => result = SDS011_OK))

\* C12 witness: Set_Working_Period(30) on the streaming sensor; the answer came with
\* the third read_sds of the wait, after a failed read and a measurement frame
C12_Witness ==
    /\ link = "stream"
    /\ At("sp_waited")
    /\ arg = <<SDS011_PERIOD, PeriodMax>>
    /\ ackIn
    /\ ret = SDS011_OK
    /\ wait_i = 3
    /\ data.pm25 = 100

C14_PeriodValidated ==
    [][ (Idle /\ calls' = calls + 1 /\ op' = "Set_Param" /\ arg'[1] = SDS011_PERIOD) =>
           IF arg'[2] \in 0..30
           THEN stack' = <<"send_sds", "sp_sent">>
           ELSE /\ stack' = <<>>
                /\ result' = SDS011_ERROR
                /\ nWrites' = 0
                /\ ~didRead'
                /\ UNCHANGED <<PendingConfReq, dev_id, SDS011_Packet, wire>>
      ]_vars

\* C14 witness: Set_Working_Period(31) was refused on a connected session whose
\* flag is set
C14_Witness ==
    /\ session = "usable"
    /\ Idle
    /\ op = "Set_Param"
    /\ arg = <<SDS011_PERIOD, 31>>
    /\ result = SDS011_ERROR
    /\ PendingConfReq

\* C15: Set_data_reporting_mode(p) and Set_Sleep_Work_Mode(p) with p not 0 or 1 write
\* nothing and return SDS011_ERROR.
C15_ModeValidated ==
    (op = "Set_Param" /\ arg[1] \in {SDS011_MODE, SDS011_SLEEP} /\ arg[2] \notin {0, 1}) =>
        (nWrites = 0 /\ (Idle => result = SDS011_ERROR))

C17_CommandFrameShape ==
    wire # <<>> =>
        /\ Len(wire) = 19
        /\ B(wire, 0) = 170
        /\ B(wire, 1) = 180
        /\ B(wire, 18) = 171
        /\ B(wire, 17) = Sum8(SubSeq(wire, 3, 17))

\* C17 witness: begin() has resent the probe with the device id 0xBEEF it learned
\* from a measurement frame; the sum of bytes 2..16 is above 255
C17_Witness ==
    /\ op = "begin"
    /\ nWrites >= 2
    /\ B(wire, 15) = 239
    /\ B(wire, 16) = 190
    /\ B(wire, 17) = (SDS011_FWVER + 239 + 190) % 256

\* C18: the frame an operation has written: for begin(), Get_Param,
\* Get_Firmware_Version and Query_data bytes 3..14 are zero (byte 2 is the command
\* asked for); for Set_Param(c, p) byte 2 = c, byte 3 = 1, byte 4 = p and bytes
\* 5..14 are zero.
C18_QueryAndSetFrames ==
    nWrites >= 1 =>
        /\ op \in {"begin", "Get_Param", "Get_Firmware_Version", "Query_data"} =>
              \A k \in 3..14 : B(wire, k) = 0
        /\ op \in {"begin", "Get_Firmware_Version"} => B(wire, 2) = SDS011_FWVER
        /\ op = "Query_data" => B(wire, 2) = SDS011_QDATA
        /\ op = "Get_Param" => B(wire, 2) = arg[1]
        /\ op = "Set_Param" =>
              /\ B(wire, 2) = arg[1]
              /\ B(wire, 3) = 1
              /\ B(wire, 4) = arg[2]
              /\ \A k \in 5..14 : B(wire, k) = 0

\* C18 witness: the third operation is a Get_Param that has written its frame after
\* the frame of a Set_New_Devid, which carries the new id in bytes 13..14
C18_Witness ==
    /\ op = "Get_Param"
    /\ nWrites = 1
    /\ calls = MaxCalls
    /\ data.confcmd = SDS011_DEVID
    /\ B(wire, 2) = SDS011_PERIOD

\* C19: ProcessResponse called with a length other than 10, or a buffer whose first
\* byte is not 0xAA or whose last byte is not 0xAB, returns SDS011_ERROR and leaves
\* `data` as it was, whatever the other bytes are.
C19_BadFramingRejected ==
    (/\ calls >= 1
     /\ \/ inp.length # 10
        \/ inp.packet[1] # 170
        \/ inp.packet[inp.length] # 171) =>
        (outp = SDS011_ERROR /\ data = NoData /\ ~PendingConfReq)

\* C19 witness: a frame with a right checksum whose last byte was replaced
C19_Witness ==
    /\ calls >= 1
    /\ inp.pos = 9
    /\ inp.packet[10] = 0
    /\ inp.packet[2] = SDS011_CONF
    /\ outp = SDS011_ERROR

\* C20: ProcessResponse accepts each well-formed frame, and returns SDS011_ERROR for
\* the frame with one of its bytes 2..7 replaced by a different value.
C20_TamperDetected ==
    calls >= 1 =>
        /\ (inp.pos >= 0 /\ inp.packet = inp.base) => outp = SDS011_OK
        /\ (inp.pos \in 2..7 /\ inp.packet # inp.base) => outp = SDS011_ERROR

\* C20 witness: byte 7 of the frame whose bytes 2..7 are zero was replaced by 255
C20_Witness ==
    /\ calls >= 1
    /\ inp.pos = 7
    /\ inp.base[8] = 0
    /\ inp.packet[8] = 255
    /\ outp = SDS011_ERROR

\* the plain sum of a span, without any width
RECURSIVE Total(_)
Total(q) == IF q = <<>> THEN 0 ELSE Head(q) + Total(Tail(q))

\* the span Calc_Checksum was called on in SpecSum
Span == SubSeq(inp.packet, inp.first + 1, inp.first + inp.length)

\* C21: Calc_Checksum(B, n) is the sum of the n bytes modulo 256, for every span,
\* with 8-bit wraparound; the spans include bytes 2..16 of the command frames and
\* bytes 2..7 of the response frames, which the same function sums.
C21_ChecksumIsSumMod256 ==
    (op = "Calc_Checksum") => outp = Total(Span) % 256

\* C21 witness: three bytes of 0xFF were summed and the sum wrapped twice
C21_Witness ==
    /\ op = "Calc_Checksum"
    /\ Span = <<255, 255, 255>>
    /\ outp = 253

\* the buffer of SpecLocal is a measurement frame with the right framing and checksum
ValidMeasurement ==
    /\ inp.length = 10
    /\ inp.packet[1] = 170
    /\ inp.packet[2] = 192
    /\ inp.packet[9] = Total(SubSeq(inp.packet, 3, 8)) % 256
    /\ inp.packet[10] = 171

\* the two values of the buffer, low byte first, in tenths
Raw25 == inp.packet[3] + 256 * inp.packet[4]
Raw10 == inp.packet[5] + 256 * inp.packet[6]

\* C22: ProcessResponse accepts every valid measurement frame and, with no humidity
\* correction stored, decodes PM2.5 as byte 2 + 256 * byte 3 and PM10 as
\* byte 4 + 256 * byte 5, in tenths; the raw bytes (0x64, 0x00) give 10.0.
C22_LittleEndianTenths ==
    [][ (calls' = calls + 1 /\ ValidMeasurement /\ RelativeHumidity = 0) =>
            /\ outp' = SDS011_OK
            /\ data'.pm25 = Raw25
            /\ data'.pm10 = Raw10
            /\ (inp.packet[3] = 100 /\ inp.packet[4] = 0) => data'.pm25 = 100
      ]_vars

\* C22 witness: a frame whose value bytes differ within each pair was decoded
\* uncorrected
C22_Witness ==
    /\ calls >= 1
    /\ ValidMeasurement
    /\ RelativeHumidity = 0
    /\ arg = <<>>
    /\ inp.packet[3] = 100 /\ inp.packet[4] = 0
    /\ inp.packet[5] = 255 /\ inp.packet[6] = 100
    /\ data.pm25 = 100
    /\ data.pm10 = 25855

\* C23: Get_DevID() is byte 7 * 256 + byte 6 of the last response frame, measurement
\* or configuration, that read_sds parsed with success, and 0xFFFF while no frame was
\* parsed.
C23_DevIdOfLastFrame ==
    /\ Get_DevID = lastId
    /\ calls = 0 => Get_DevID = 65535

\* C23 witness: the last frame parsed was the measurement frame of the sensor 0xBEEF
C23_Witness ==
    /\ Idle
    /\ op = "Query_data"
    /\ result = SDS011_OK
    /\ data.cmd_id = SDS011_DATA
    /\ lastId = IdA
    /\ dev_id = <<239, 190>>

\* C24: when begin() has returned SDS011_OK, a valid configuration frame was parsed
\* during that call, it was the last frame parsed, _PendingConfReq is false, the
\* cached device id is the id of that frame, and _fd is no longer 0xff, so that the
\* next command is not refused as not connected.
C24_BeginOkMeansAnswered ==
    (Idle /\ op = "begin" /\ result = SDS011_OK) =>
        /\ confIn
        /\ data.cmd_id = SDS011_CONF
        /\ ~PendingConfReq
        /\ dev_id = <<lastId % 256, lastId \div 256>>
        /\ data.devid = lastId
        /\ fd \in Fds

\* C24 witness: begin() returned SDS011_OK after it had to write the probe again
C24_Witness ==
    /\ Idle
    /\ op = "begin"
    /\ result = SDS011_OK
    /\ nWrites = 3
    /\ confIn
    /\ lastId = IdA

\* C25: a configuration frame with right framing and checksum whose sub-command id
\* is none of 2, 5, 6, 7, 8 makes read_sds return SDS011_ERROR; inside
\* Wait_For_answer that leaves _PendingConfReq true and the cached id as it was, the
\* read has used one attempt, and the wait goes on to the next read while attempts
\* are left.
C25_UnknownConfKeepsWaiting ==
    [][ /\ (/\ At("read_sds")
            /\ Len(stack) >= 2
            /\ stack[2] = "Wait_For_answer"
            /\ data'.cmd_id = 197
            /\ data'.confcmd \notin {2, 5, 6, 7, 8}) =>
               /\ ret' = SDS011_ERROR
               /\ PendingConfReq /\ PendingConfReq'
               /\ dev_id' = dev_id
               /\ stack' = Tail(stack)
               /\ wait_i' = wait_i
        /\ (At("Wait_For_answer") /\ PendingConfReq /\ wait_i <= 20) =>
               /\ stack' = <<"read_sds">> \o stack
               /\ wait_i' = wait_i + 1
      ]_vars

\* C25 witness: the first read of the wait of Get_Param, on a session that begin()
\* connected, parsed a configuration frame with the sub-command id 9
C25_Witness ==
    /\ session = "usable"
    /\ calls = 2
    /\ stack = <<"Wait_For_answer", "gp_waited">>
    /\ wait_i = 1
    /\ ret = SDS011_ERROR
    /\ data.cmd_id = SDS011_CONF
    /\ data.confcmd = 9
    /\ PendingConfReq

\* C26: Set_New_Devid(newid) does not write _dev_id: the cached id changes only in
\* the step of read_sds that parsed a frame with success, and then to the id that
\* frame carries; a Set_New_Devid that returns SDS011_ERROR with no frame parsed
\* leaves Get_DevID() as it was.
C26_DevIdOnlyFromFrames ==
    [][ /\ (dev_id' # dev_id) =>
               /\ At("read_sds")
               /\ ret' = SDS011_OK
               /\ dev_id' = <<lastId' % 256, lastId' \div 256>>
        /\ (Idle /\ op' = "Set_New_Devid") => dev_id' = dev_id
      ]_vars

\* C26 witness: Set_New_Devid(0x1234) wrote its command, got no answer and returned
\* SDS011_ERROR, and the cached id is still 0xBEEF
C26_Witness ==
    /\ Idle
    /\ op = "Set_New_Devid"
    /\ arg = <<52, 18>>
    /\ nWrites = 1
    /\ result = SDS011_ERROR
    /\ dev_id = <<239, 190>>

\* C27: every command frame handed to write() carries in its bytes 15 and 16 the
\* cached device id as it is at the moment of the write, the frames that Try_Connect
\* writes again and the frames written after the drain of send_sds changed the id
\* included.
C27_WrittenIdIsCachedId ==
    [][ (nWrites' = nWrites + 1) =>
            (B(wire', 15) = dev_id[1] /\ B(wire', 16) = dev_id[2])
      ]_vars

\* C28: when Get_data or Query_data, called after a begin() that returned SDS011_OK,
\* has returned SDS011_OK, the frame parsed by its read was a measurement frame, so
\* that the values returned, data.pm25 and data.pm10, are those of a frame parsed
\* during the call.
C28_DataOkMeansMeasurement ==
    (/\ Idle
     /\ session = "usable"
     /\ op \in {"Get_data", "Query_data"}
     /\ result = SDS011_OK) =>
        data.cmd_id = SDS011_DATA

\* C29: when Get_Param(c) has returned SDS011_OK on a connected session, the frame
\* it took its result from is a configuration frame with the sub-command c parsed
\* during the call; when Get_Firmware_Version has returned SDS011_OK, that frame is
\* a firmware-version frame parsed during the call.
C29_GetterReadsItsAnswer ==
    (Idle /\ session = "usable" /\ result = SDS011_OK) =>
        /\ op = "Get_Param" =>
              (confIn /\ data.cmd_id = SDS011_CONF /\ data.confcmd = arg[1])
        /\ op = "Get_Firmware_Version" =>
              (confIn /\ data.cmd_id = SDS011_CONF /\ data.confcmd = SDS011_FWVER)

\* C30: while the stored relative humidity is 0, the PM2.5 value of every decoded
\* measurement frame is the raw value of the frame; and for every stored humidity
\* the PM10 value is the raw value.
C30_CorrectionOnlyPm25 ==
    [][ (calls' = calls + 1 /\ ValidMeasurement) =>
            /\ data'.pm10 = Raw10
            /\ RelativeHumidity = 0 => data'.pm25 = Raw25
      ]_vars

\* C30 witness: with the humidity 30 stored, a frame was decoded to a corrected
\* PM2.5 and the raw PM10
C30_Witness ==
    /\ calls >= 1
    /\ ValidMeasurement
    /\ RelativeHumidity = 30
    /\ Raw25 = 100
    /\ data.pm25 = 57
    /\ Raw10 = 200
    /\ data.pm10 = 200

\* C33: a valid response frame that the line delivers in two consecutive short
\* reads, 4 bytes and then 6 bytes, is decoded by read_sds as that frame: the read
\* that brings the last 6 bytes ends the call with SDS011_OK and the frame in `data`.
C33_SplitFrameDecoded ==
    [][ (/\ At("rs_loop")
         /\ nReads = 1
         /\ Len(buf) = 4
         /\ rxq # <<>>
         /\ Len(Head(rxq)) = 6
         /\ (buf \o Head(rxq)) \in ValidFrames) =>
            /\ Idle'
            /\ outp' = SDS011_OK
            /\ data'.cmd_id = (buf \o Head(rxq))[2]
            /\ lastId' = IdA
      ]_vars

\* the chunk the next read() of SpecRead returns
NextChunk == IF rxq = <<>> THEN <<>> ELSE Head(rxq)

\* C38: a call of read_sds makes at most 5 read() calls; the first read that returns
\* exactly 10 bytes ends the loop, and those 10 bytes are what ProcessResponse is
\* given; a shorter read is followed by another read while fewer than 5 were made,
\* and the fifth read that is short too makes read_sds return SDS011_ERROR.
C38_FiveReadsFirstWhole ==
    [][ At("rs_loop") =>
            /\ nReads' = nReads + 1
            /\ nReads' <= 5
            /\ Len(NextChunk) = 10 =>
                  /\ Idle'
                  /\ outp' = ProcessResponse(NextChunk, 10).rc
                  /\ data' = ProcessResponse(NextChunk, 10).data
            /\ (Len(NextChunk) # 10 /\ nReads < 4) =>
                  (At("rs_loop")' /\ outp' = outp /\ data' = data)
            /\ (Len(NextChunk) # 10 /\ nReads = 4) =>
                  (Idle' /\ outp' = SDS011_ERROR /\ data' = data)
      ]_vars

\* C38 witness: four short reads, and the fifth read delivered a frame that was
\* parsed
C38_Witness ==
    /\ Idle
    /\ op = "read_sds"
    /\ calls = 1
    /\ nReads = 5
    /\ outp = SDS011_OK
    /\ data.cmd_id = SDS011_DATA
    /\ data.pm10 = 200

\* C35: a step that neither writes nor ends a parse with SDS011_OK leaves
\* _PendingConfReq and _dev_id as they were: a response that ProcessResponse
\* rejects (wrong length,
\* first or last byte, checksum, marker or configuration sub-command), a read()
\* that returns fewer than 10 bytes, and so a read_sds call that gets no 10-byte
\* read at all.
C35_RejectedChangesNothing ==
    [][ (nWrites' = nWrites /\ (~Idle' \/ outp' # SDS011_OK)) =>
            (PendingConfReq' = PendingConfReq /\ dev_id' = dev_id)
      ]_vars

\* C35 witness: with a request pending and the id 0x1234 cached, read_sds read a
\* configuration frame of the sensor 0xBEEF with the unknown sub-command 9 and
\* returned SDS011_ERROR
C35_Witness ==
    /\ Idle
    /\ op = "read_sds"
    /\ calls = 1
    /\ outp = SDS011_ERROR
    /\ data.cmd_id = SDS011_CONF
    /\ data.confcmd = 9
    /\ data.devid = IdA
    /\ PendingConfReq
    /\ dev_id = <<52, 18>>

\* C34: when Get_Param, Set_Param, Get_Firmware_Version or Set_New_Devid has
\* returned SDS011_OK, _PendingConfReq is false, so that the send_sds of the next
\* command writes without reading first.
C34_ConfOkLeavesNothingPending ==
    (/\ Idle
     /\ op \in {"Get_Param", "Set_Param", "Get_Firmware_Version", "Set_New_Devid"}
     /\ result = SDS011_OK) =>
        ~PendingConfReq

\* C34 witness: Set_Param returned SDS011_OK after it wrote its command and parsed
\* the answer to it
C34_Witness ==
    /\ Idle
    /\ op = "Set_Param"
    /\ result = SDS011_OK
    /\ nWrites = 1
    /\ ackIn
    /\ ~PendingConfReq

\* C36: a write() in send_sds that returns anything but 19 makes send_sds return
\* SDS011_ERROR with _PendingConfReq false, as it was at the write; the operation
\* that called send_sds then returns SDS011_ERROR at once, without a read and
\* without another write.
C36_FailedWriteFailsOperation ==
    [][ /\ (wfail' /\ ~wfail) =>
               /\ At("send_write")
               /\ nWrites' = nWrites + 1
               /\ ret' = SDS011_ERROR
               /\ stack' = Tail(stack)
               /\ ~PendingConfReq /\ ~PendingConfReq'
        /\ (wfail /\ ~Idle) =>
               /\ Idle'
               /\ result' = SDS011_ERROR
               /\ nWrites' = nWrites
               /\ rxq' = rxq
               /\ data' = data
               /\ ~PendingConfReq'
      ]_vars

\* C36 witness: the write of Get_Firmware_Version on a connected session failed and
\* the operation returned SDS011_ERROR
C36_Witness ==
    /\ Idle
    /\ session = "usable"
    /\ op = "Get_Firmware_Version"
    /\ wfail
    /\ nWrites = 1
    /\ result = SDS011_ERROR
    /\ ~PendingConfReq

\* C37: when the first begin() of a session has returned SDS011_ERROR,
\* _PendingConfReq is false, so that the send_sds of the next begin() writes the
\* probe without reading first, as on a new session.
C37_FailedBeginLeavesNothingPending ==
    (Idle /\ op = "begin" /\ calls = 1 /\ result = SDS011_ERROR) => ~PendingConfReq

\* C32: when read_sds has parsed a valid frame whose bytes 6 and 7 are D mod 256 and
\* D div 256, Get_DevID() is D; and the command frame that is prepared and written
\* next carries D mod 256 in byte 15 and D div 256 in byte 16.
C32_DevIdRoundTrip ==
    [][ /\ (At("rs_loop") /\ Idle' /\ outp' = SDS011_OK) =>
               /\ dev_id'[2] * 256 + dev_id'[1] = NextChunk[8] * 256 + NextChunk[7]
               /\ lastId' = NextChunk[8] * 256 + NextChunk[7]
        /\ (nWrites' = nWrites + 1) =>
               /\ B(wire', 15) = lastId % 256
               /\ B(wire', 16) = lastId \div 256
      ]_vars

\* C32 witness: a frame of the sensor 0x80FF was parsed and the command written
\* after it carries FF 80
C32_Witness ==
    /\ Idle
    /\ calls = 2
    /\ op = "send_sds"
    /\ nWrites = 1
    /\ outp = SDS011_OK
    /\ data.devid = 128 * 256 + 255
    /\ B(wire, 15) = 255
    /\ B(wire, 16) = 128

\* Upper bounds on the steps still to run, for a termination measure.  A wait at
\* i = w runs at most WaitMax + 2 - w loop tests and as many read_sds calls:
WaitCost(w) == 2 * (WaitMax + 2 - w) + 1

\* send_sds: the connection check, the drain and the write
SendCost == WaitCost(0) + 2

\* one round of Try_Connect: three polls of three steps, the resend and its test
RoundCost == 3 * (PollMark + 1) + SendCost + 1

\* Try_Connect at the loop test with j resends counted
LoopCost(j) == (ResendMax + 2 - j) * RoundCost + 1

\* the steps the code position `label` can still take before it returns
Cost(label) ==
    CASE label = "read_sds"        -> 1
      [] label = "Wait_For_answer" -> WaitCost(wait_i)
      [] label = "send_write"      -> 1
      [] label = "send_sds"        -> SendCost
      [] label = "tc_sent"         -> LoopCost(0) + 1
      [] label = "tc_loop"         -> LoopCost(tc_j) - 3 * tc_i
      [] label = "tc_polled"       -> LoopCost(tc_j) - 3 * tc_i - 2
      [] label = "tc_resent"       -> LoopCost(tc_j) - RoundCost + 1
      [] label \in {"gp_sent", "sp_sent", "fw_sent", "nd_sent"} -> WaitCost(0) + 2
      [] label = "rd_sent"         -> 3
      [] OTHER                     -> 1

\* the measure of a state: the sum over the code positions on the stack
Rank ==
    LET c(k) == IF k <= Len(stack) THEN Cost(stack[k]) ELSE 0
    IN c(1) + c(2) + c(3) + c(4)

\* C31: every library operation terminates when each read and write call returns:
\* the measure Rank is never negative, is at most SendCost + LoopCost(0) + 1 when an
\* operation starts, and goes down with every step of a running operation, each of
\* which makes at most one write() or one read_sds call of at most 5 reads.  So
\* begin(), Wait_For_answer, read_sds and every command return after a bounded
\* number of reads and writes.
C31_EveryOperationTerminates ==
    [][ /\ Rank' >= 0
        /\ Len(stack') <= 4
        /\ Idle => Rank' <= SendCost + LoopCost(0) + 1
        /\ ~Idle => Rank' < Rank
        /\ nWrites' <= nWrites + 1
        /\ Idle' => (Idle \/ result' \in {SDS011_OK, SDS011_ERROR})
      ]_vars

\* C31 witness: the longest operation has returned: a begin() that wrote the probe
\* 13 times, polled 3 times after each of the first 12 writes, and had a timed-out
\* read as its last poll
C31_Witness ==
    /\ Idle
    /\ op = "begin"
    /\ nWrites = ResendMax + 3
    /\ didRead
    /\ ~confIn
    /\ result = SDS011_ERROR
    /\ fd = NoFd

====
